---- MODULE Spec2Model ----
(***************************************************************************)
(* Gaze analysis core of the webcam gaze web application                   *)
(* (gazeAnalysis.ts: I-DT fixation detection, AOI matching, dwell time,    *)
(* scanpath and first-fixation metrics, CSV export).                       *)
(*                                                                         *)
(* Number representation.  The code computes in IEEE doubles; the model    *)
(* computes exactly, in integers and rationals:                            *)
(*   - a timestamp is held in hundredths of a second (12 is 0.12 s);       *)
(*   - a coordinate, a width, a height and the dispersion threshold are    *)
(*     held in hundredths of the stimulus size (50 is 0.50, 3 is 0.03);    *)
(*   - a duration is held in milliseconds, as in the code;                 *)
(*   - a centroid and a percentage are rationals [num, den], den > 0;      *)
(*   - a distance is held as its square (Math.sqrt is monotone on the      *)
(*     non-negative numbers, so maxima and comparisons are those of the    *)
(*     code).                                                              *)
(* Sequences are 1-based: the code's index i is the model's i + 1.         *)
(***************************************************************************)
EXTENDS Integers, Sequences, FiniteSets

VARIABLES
    gazePoints,            \* GazePoint[] handed to the core by the caller
    aois,                  \* AOI[] handed to the core by the caller
    dispersionThreshold,   \* parameter (hundredths)
    minFixationDuration,   \* parameter (ms)
    options,               \* analyzeGazeData's options; a field left out is Null
    fixations,             \* Fixation[]: detectFixationsIDT's result, the metrics' input
    contains,              \* contains[i][j] = isPointInAOI(fixations[i].x, .y, aois[j])
    matched,               \* matched[i] = findAOIForFixation(fixations[i], aois)
    dwellTimeStats,        \* calculateDwellTime's result
    scanpathMetrics,       \* calculateScanpathMetrics's result
    firstFixationMetrics,  \* calculateFirstFixation's result
    analysisResult,        \* analyzeGazeData's result
    csvData,               \* analysisToCSV's result
    drawingData,           \* getScanpathDrawingData's result
    idt,                   \* the locals of a running detectFixationsIDT call
    history,               \* the passes its outer while has made, oldest first
    videoMode,             \* the fields of a VideoMode object
    outcome,               \* how the last call ended: "none", "returned" or an error kind
    pc                     \* position of the caller

vars == <<gazePoints, aois, dispersionThreshold, minFixationDuration, options, fixations,
          contains, matched, dwellTimeStats, scanpathMetrics, firstFixationMetrics,
          analysisResult, csvData, drawingData, idt, history, videoMode, outcome, pc>>

\* JavaScript's null, and a value that may be null: a set of at most one
\* element.  A variable is Null until the call that sets it has run.
Null == {}

Some(v) == {v}

ValueOf(option) == CHOOSE v \in option : TRUE

\* ==================== Bounds of the model ====================

\* Longest gaze-point array handed to the detector.
MaxPoints == 4

\* Longest fixation list handed to the metrics.
MaxFixations == 3

\* Longest AOI list handed to the metrics.
MaxAOIs == 2

\* Longest fixation list handed to the metrics where four fixations in a
\* row are looked at.
MaxScanpathFixations == 4

\* ==================== Algorithm Parameters ====================

DEFAULT_DISPERSION_THRESHOLD == 3

DEFAULT_MIN_FIXATION_DURATION == 100

\* ==================== Numbers ====================

\* The rational n/1.
Rat(n) == [num |-> n, den |-> 1]

\* a/b <= k, k <= a/b for a rational r = a/b (b > 0) and an integer k.
RatLeqInt(r, k) == r.num <= k * r.den

IntLeqRat(k, r) == k * r.den <= r.num

\* Greatest common divisor of two naturals, not both 0.
RECURSIVE Gcd(_, _)
Gcd(m, n) == IF n = 0 THEN m ELSE Gcd(n, m % n)

\* The rational r in lowest terms.
RatNorm(r) ==
    LET g == Gcd(IF r.num < 0 THEN -r.num ELSE r.num, r.den)
    IN [num |-> r.num \div g, den |-> r.den \div g]

RatAdd(a, b) ==
    LET p == RatNorm(a)
        q == RatNorm(b)
    IN RatNorm([num |-> p.num * q.den + q.num * p.den, den |-> p.den * q.den])

RatSub(a, b) == [num |-> a.num * b.den - b.num * a.den, den |-> a.den * b.den]

RatMul(a, b) == [num |-> a.num * b.num, den |-> a.den * b.den]

RatEq(a, b) == a.num * b.den = b.num * a.den

\* Faulty variant: one sample period of 0.1 s is counted on top of the span.
DurationMsInclusive(startTime, endTime) == (endTime - startTime + 10) * 10

\* (endTime - startTime) * 1000: seconds to milliseconds.  Timestamps are in
\* hundredths of a second, so the factor on them is 1000 / 100.
DurationMs(startTime, endTime) == (endTime - startTime) * 10

\* Faulty variant: dispersion < dispersionThreshold.
WithinThresholdStrict(dispersionSq, threshold) ==
    /\ threshold > 0
    /\ dispersionSq < threshold * threshold

\* dispersion <= dispersionThreshold, on the squared dispersion.
WithinThreshold(dispersionSq, threshold) ==
    /\ threshold >= 0
    /\ dispersionSq <= threshold * threshold

\* Sum of f[i] over i in 1..Len(f).
RECURSIVE SumSeq(_)
SumSeq(s) == IF s = <<>> THEN 0 ELSE Head(s) + SumSeq(Tail(s))

\* Maximum of a non-empty finite set of integers.
MaxOf(S) == CHOOSE m \in S : \A k \in S : k <= m

\* All sequences over S of length at most n.
SeqsUpTo(S, n) == UNION {[1..k -> S] : k \in 0..n}

\* Those of them without a repeated element.
DistinctSeqsUpTo(S, n) ==
    {q \in SeqsUpTo(S, n) : \A i, j \in 1..Len(q) : q[i] = q[j] => i = j}

\* ==================== Arrays ====================

\* Faulty variant: array.sort(compare) without the spread reorders the array
\* the caller handed in.
SortInPlace(array, sorted) == sorted

\* The array the caller handed in, after [...array].sort(compare) has produced
\* sorted: the spread makes a new array and sort reorders that one.
SortOfCopy(array, sorted) == array

\* ==================== Fixation Detection (I-DT Algorithm) ====================

\* Squared distance between two gaze points.
DistSq(p, q) == (p.x - q.x) * (p.x - q.x) + (p.y - q.y) * (p.y - q.y)

\* calculateDispersion: the maximum pairwise distance (squared), 0 below 2 points.
calculateDispersionSq(points) ==
    IF Len(points) < 2 THEN 0
    ELSE MaxOf({0} \cup {DistSq(points[i], points[j]) :
                            i \in 1..Len(points), j \in 1..Len(points)})

\* calculateCentroid: the mean of x and of y, (0, 0) for no point.
calculateCentroid(points) ==
    IF Len(points) = 0 THEN [x |-> Rat(0), y |-> Rat(0)]
    ELSE [x |-> [num |-> SumSeq([i \in 1..Len(points) |-> points[i].x]),
                 den |-> Len(points)],
          y |-> [num |-> SumSeq([i \in 1..Len(points) |-> points[i].y]),
                 den |-> Len(points)]]

\* Faulty variant: the copy is not sorted.
NoSortByTimestamp(points) == points

\* Array.prototype.sort with comparator (a, b) => a.timestamp - b.timestamp:
\* a stable sort (ties keep their order).  InsertByTimestamp puts p after
\* every element whose timestamp is not greater.
RECURSIVE InsertByTimestamp(_, _)
InsertByTimestamp(sorted, p) ==
    IF sorted = <<>> THEN <<p>>
    ELSE IF Head(sorted).timestamp <= p.timestamp
         THEN <<Head(sorted)>> \o InsertByTimestamp(Tail(sorted), p)
         ELSE <<p>> \o sorted

RECURSIVE SortLoop(_, _)
SortLoop(sorted, rest) ==
    IF rest = <<>> THEN sorted
    ELSE SortLoop(InsertByTimestamp(sorted, Head(rest)), Tail(rest))

SortByTimestamp(points) == SortLoop(<<>>, points)

\* The inner while of detectFixationsIDT: grow windowEnd until the window
\* spans minDuration or the input is exhausted (windowEnd = Len + 1).
RECURSIVE InitialWindowEnd(_, _, _, _)
InitialWindowEnd(sortedPoints, windowStart, windowEnd, minDuration) ==
    IF /\ windowEnd <= Len(sortedPoints)
       /\ DurationMs(sortedPoints[windowStart].timestamp,
                     sortedPoints[windowEnd].timestamp) < minDuration
    THEN InitialWindowEnd(sortedPoints, windowStart, windowEnd + 1, minDuration)
    ELSE windowEnd

\* Faulty variant: the test window is sliced one point short, so the new point is
\* never looked at.
RECURSIVE ExpandWindowShortSlice(_, _, _, _)
ExpandWindowShortSlice(sortedPoints, windowStart, windowEnd, threshold) ==
    IF /\ windowEnd + 1 <= Len(sortedPoints)
       /\ WithinThreshold(
              calculateDispersionSq(SubSeq(sortedPoints, windowStart, windowEnd)),
              threshold)
    THEN ExpandWindowShortSlice(sortedPoints, windowStart, windowEnd + 1, threshold)
    ELSE windowEnd

\* Faulty variant: an if in place of the expansion while, so at most one point is
\* added to the initial window.
ExpandWindowOnce(sortedPoints, windowStart, windowEnd, threshold) ==
    IF /\ windowEnd + 1 <= Len(sortedPoints)
       /\ WithinThreshold(
              calculateDispersionSq(SubSeq(sortedPoints, windowStart, windowEnd + 1)),
              threshold)
    THEN windowEnd + 1
    ELSE windowEnd

\* The expansion while of detectFixationsIDT: take the next point as long as
\* the dispersion of the extended window stays within the threshold.
RECURSIVE ExpandWindow(_, _, _, _)
ExpandWindow(sortedPoints, windowStart, windowEnd, threshold) ==
    IF /\ windowEnd + 1 <= Len(sortedPoints)
       /\ WithinThreshold(
              calculateDispersionSq(SubSeq(sortedPoints, windowStart, windowEnd + 1)),
              threshold)
    THEN ExpandWindow(sortedPoints, windowStart, windowEnd + 1, threshold)
    ELSE windowEnd

\* Faulty variant: the duration is left in the unit of the timestamps.
MakeFixationNoMs(fixationId, windowPoints) ==
    LET centroid  == calculateCentroid(windowPoints)
        startTime == windowPoints[1].timestamp
        endTime   == windowPoints[Len(windowPoints)].timestamp
    IN [id         |-> fixationId,
        startTime  |-> startTime,
        endTime    |-> endTime,
        duration   |-> endTime - startTime,
        x          |-> centroid.x,
        y          |-> centroid.y,
        pointCount |-> Len(windowPoints),
        points     |-> windowPoints]

\* The fixation recorded for the window windowPoints.
MakeFixation(fixationId, windowPoints) ==
    LET centroid  == calculateCentroid(windowPoints)
        startTime == windowPoints[1].timestamp
        endTime   == windowPoints[Len(windowPoints)].timestamp
    IN [id         |-> fixationId,
        startTime  |-> startTime,
        endTime    |-> endTime,
        duration   |-> DurationMs(startTime, endTime),
        x          |-> centroid.x,
        y          |-> centroid.y,
        pointCount |-> Len(windowPoints),
        points     |-> windowPoints]

\* Faulty variant: the next window starts on the last point of the fixation.
StayOnLastPoint(windowStart, windowEnd) == windowEnd

\* Faulty variant: the window slides by one point after a fixation as well.
SlideAfterFixation(windowStart, windowEnd) == windowStart + 1

\* windowStart = windowEnd + 1: move the window past the fixation.
MovePastFixation(windowStart, windowEnd) == windowEnd + 1

\* Faulty variant: the whole rejected window is skipped.
SkipRejectedWindow(windowStart, windowEnd) == windowEnd + 1

\* windowStart++: not a fixation, move the window forward by one point.
MoveWindowForward(windowStart, windowEnd) == windowStart + 1

\* One pass of the outer while of detectFixationsIDT, entered with windowStart
\* inside the input: the locals after the pass and the way it took.  "break"
\* is the break on an exhausted input, "recorded" a pushed fixation, "dropped"
\* a window that passed the dispersion test but not the duration test, and
\* "rejected" a window that failed the dispersion test.
IDTStep(sortedPoints, windowStart, found, fixationId, threshold, minDuration) ==
    LET windowEnd0 == InitialWindowEnd(sortedPoints, windowStart, windowStart,
                                       minDuration)
    IN IF windowEnd0 > Len(sortedPoints)
       THEN [branch |-> "break", windowStart |-> windowStart,
             windowEnd |-> windowEnd0, fixations |-> found,
             fixationId |-> fixationId]
       ELSE IF WithinThreshold(
                   calculateDispersionSq(SubSeq(sortedPoints, windowStart, windowEnd0)),
                   threshold)
       THEN LET windowEnd    == ExpandWindow(sortedPoints, windowStart, windowEnd0,
                                             threshold)
                windowPoints == SubSeq(sortedPoints, windowStart, windowEnd)
                fixation     == MakeFixation(fixationId, windowPoints)
            IN IF fixation.duration >= minDuration
               THEN [branch |-> "recorded",
                     windowStart |-> MovePastFixation(windowStart, windowEnd),
                     windowEnd |-> windowEnd, fixations |-> Append(found, fixation),
                     fixationId |-> fixationId + 1]
               ELSE [branch |-> "dropped",
                     windowStart |-> MovePastFixation(windowStart, windowEnd),
                     windowEnd |-> windowEnd, fixations |-> found,
                     fixationId |-> fixationId]
       ELSE [branch |-> "rejected",
             windowStart |-> MoveWindowForward(windowStart, windowEnd0),
             windowEnd |-> windowEnd0, fixations |-> found,
             fixationId |-> fixationId]

\* The outer while of detectFixationsIDT, from windowStart on.
RECURSIVE IDTLoop(_, _, _, _, _, _)
IDTLoop(sortedPoints, windowStart, found, fixationId, threshold, minDuration) ==
    IF windowStart > Len(sortedPoints) THEN found
    ELSE
      LET pass == IDTStep(sortedPoints, windowStart, found, fixationId,
                          threshold, minDuration)
      IN IF pass.branch = "break" THEN found
         ELSE IDTLoop(sortedPoints, pass.windowStart, pass.fixations,
                      pass.fixationId, threshold, minDuration)

\* Faulty variant: the loop reads gazePoints where it should read sortedPoints.
detectFixationsIDTUnsorted(points, threshold, minDuration) ==
    IF Len(points) < 2 THEN <<>>
    ELSE IDTLoop(points, 1, <<>>, 1, threshold, minDuration)

detectFixationsIDT(points, threshold, minDuration) ==
    IF Len(points) < 2 THEN <<>>
    ELSE IDTLoop(SortByTimestamp(points), 1, <<>>, 1, threshold, minDuration)

\* ==================== AOI Analysis ====================

\* Faulty variant: an AOI without area contains nothing.
isPointInAOIWithArea(x, y, aoi) ==
    /\ aoi.bounds.width > 0
    /\ aoi.bounds.height > 0
    /\ IntLeqRat(aoi.bounds.x, x)
    /\ RatLeqInt(x, aoi.bounds.x + aoi.bounds.width)
    /\ IntLeqRat(aoi.bounds.y, y)
    /\ RatLeqInt(y, aoi.bounds.y + aoi.bounds.height)

\* Faulty variant: the right and bottom edges are exclusive.
isPointInAOIHalfOpen(x, y, aoi) ==
    /\ IntLeqRat(aoi.bounds.x, x)
    /\ ~ IntLeqRat(aoi.bounds.x + aoi.bounds.width, x)
    /\ IntLeqRat(aoi.bounds.y, y)
    /\ ~ IntLeqRat(aoi.bounds.y + aoi.bounds.height, y)

\* isPointInAOI: x >= b.x && x <= b.x + b.width && y >= b.y && y <= b.y + b.height.
isPointInAOI(x, y, aoi) ==
    /\ IntLeqRat(aoi.bounds.x, x)
    /\ RatLeqInt(x, aoi.bounds.x + aoi.bounds.width)
    /\ IntLeqRat(aoi.bounds.y, y)
    /\ RatLeqInt(y, aoi.bounds.y + aoi.bounds.height)

\* Faulty variant: the last AOI containing the centroid wins.
findAOIForFixationLast(fixation, aoiList) ==
    LET hits == {j \in 1..Len(aoiList) :
                    isPointInAOI(fixation.x, fixation.y, aoiList[j])}
    IN IF hits = {} THEN Null ELSE Some(aoiList[MaxOf(hits)])

\* findAOIForFixation: the first AOI of the list, in list order, that contains
\* the fixation's centroid; null when there is none.
RECURSIVE findAOIFrom(_, _, _)
findAOIFrom(fixation, aoiList, j) ==
    IF j > Len(aoiList) THEN Null
    ELSE IF isPointInAOI(fixation.x, fixation.y, aoiList[j])
         THEN Some(aoiList[j])
         ELSE findAOIFrom(fixation, aoiList, j + 1)

findAOIForFixation(fixation, aoiList) == findAOIFrom(fixation, aoiList, 1)

\* ==================== Dwell Time Statistics ====================

\* fixations.reduce((sum, f) => sum + f.duration, 0)
SumDuration(fixationList) ==
    SumSeq([i \in 1..Len(fixationList) |-> fixationList[i].duration])

\* Faulty variant: percentOfTotal is left a fraction of 1.
DwellRecordFraction(aoiId, aoiName, counted, totalViewingTime) ==
    LET totalDwellTime == SumDuration(counted)
        fixationCount  == Len(counted)
    IN [aoiId                |-> aoiId,
        aoiName              |-> aoiName,
        totalDwellTime       |-> totalDwellTime,
        fixationCount        |-> fixationCount,
        meanFixationDuration |-> IF fixationCount > 0
                                 THEN [num |-> totalDwellTime, den |-> fixationCount]
                                 ELSE Rat(0),
        percentOfTotal       |-> IF totalViewingTime > 0
                                 THEN [num |-> totalDwellTime,
                                       den |-> totalViewingTime]
                                 ELSE Rat(0)]

\* One DwellTimeStats record over the fixations counted for it.
DwellRecord(aoiId, aoiName, counted, totalViewingTime) ==
    LET totalDwellTime == SumDuration(counted)
        fixationCount  == Len(counted)
    IN [aoiId                |-> aoiId,
        aoiName              |-> aoiName,
        totalDwellTime       |-> totalDwellTime,
        fixationCount        |-> fixationCount,
        meanFixationDuration |-> IF fixationCount > 0
                                 THEN [num |-> totalDwellTime, den |-> fixationCount]
                                 ELSE Rat(0),
        percentOfTotal       |-> IF totalViewingTime > 0
                                 THEN [num |-> totalDwellTime * 100,
                                       den |-> totalViewingTime]
                                 ELSE Rat(0)]

\* Faulty variant: the outside bucket is every fixation the first AOI does not contain.
OutsideFixationsFirstOnly(fixationList, aoiList) ==
    SelectSeq(fixationList,
              LAMBDA f : ~ (aoiList # <<>> /\ isPointInAOI(f.x, f.y, aoiList[1])))

\* Faulty variant: an AOI of zero width or height keeps no fixation out of the
\* outside bucket.
OutsideFixationsPositiveArea(fixationList, aoiList) ==
    SelectSeq(fixationList,
              LAMBDA f : ~ \E j \in 1..Len(aoiList) :
                             /\ aoiList[j].bounds.width > 0
                             /\ aoiList[j].bounds.height > 0
                             /\ isPointInAOI(f.x, f.y, aoiList[j]))

\* fixations.filter(f => !aois.some(aoi => isPointInAOI(f.x, f.y, aoi)))
OutsideFixations(fixationList, aoiList) ==
    SelectSeq(fixationList,
              LAMBDA f : ~ \E j \in 1..Len(aoiList) : isPointInAOI(f.x, f.y, aoiList[j]))

\* fixations.filter(f => isPointInAOI(f.x, f.y, aoi))
AOIFixations(fixationList, aoi) ==
    SelectSeq(fixationList, LAMBDA f : isPointInAOI(f.x, f.y, aoi))

\* Faulty variant: a fixation is credited only to the AOI findAOIForFixation assigns
\* it to.
calculateDwellTimeFirstMatch(fixationList, aoiList) ==
    LET totalViewingTime == SumDuration(fixationList)
        stats == [j \in 1..Len(aoiList) |->
                    DwellRecord(aoiList[j].id, aoiList[j].name,
                                SelectSeq(fixationList,
                                          LAMBDA f : findAOIForFixation(f, aoiList)
                                                        = Some(aoiList[j])),
                                totalViewingTime)]
    IN Append(stats,
              DwellRecord("__outside__", "Outside AOIs",
                          OutsideFixations(fixationList, aoiList), totalViewingTime))

\* Faulty variant: an AOI no fixation landed in gets no record.
calculateDwellTimeVisitedOnly(fixationList, aoiList) ==
    LET totalViewingTime == SumDuration(fixationList)
        stats == [j \in 1..Len(aoiList) |->
                    DwellRecord(aoiList[j].id, aoiList[j].name,
                                AOIFixations(fixationList, aoiList[j]),
                                totalViewingTime)]
    IN Append(SelectSeq(stats, LAMBDA record : record.fixationCount > 0),
              DwellRecord("__outside__", "Outside AOIs",
                          OutsideFixations(fixationList, aoiList), totalViewingTime))

\* calculateDwellTime: one record per AOI in input order, then "Outside AOIs".
calculateDwellTime(fixationList, aoiList) ==
    LET totalViewingTime == SumDuration(fixationList)
        stats == [j \in 1..Len(aoiList) |->
                    DwellRecord(aoiList[j].id, aoiList[j].name,
                                AOIFixations(fixationList, aoiList[j]),
                                totalViewingTime)]
    IN Append(stats,
              DwellRecord("__outside__", "Outside AOIs",
                          OutsideFixations(fixationList, aoiList), totalViewingTime))

\* ==================== Scanpath Analysis ====================

\* distance(x1, y1, x2, y2), squared, between two centroids.
distanceSq(x1, y1, x2, y2) ==
    LET dx == RatSub(x2, x1)
        dy == RatSub(y2, y1)
    IN RatAdd(RatMul(dx, dx), RatMul(dy, dy))

\* [...fixations].sort((a, b) => a.startTime - b.startTime): a stable sort.
RECURSIVE InsertByStartTime(_, _)
InsertByStartTime(sorted, f) ==
    IF sorted = <<>> THEN <<f>>
    ELSE IF Head(sorted).startTime <= f.startTime
         THEN <<Head(sorted)>> \o InsertByStartTime(Tail(sorted), f)
         ELSE <<f>> \o sorted

RECURSIVE SortFixationsLoop(_, _)
SortFixationsLoop(sorted, rest) ==
    IF rest = <<>> THEN sorted
    ELSE SortFixationsLoop(InsertByStartTime(sorted, Head(rest)), Tail(rest))

SortByStartTime(fixationList) == SortFixationsLoop(<<>>, fixationList)

\* aoi ? aoi.name : '__outside__'
AOINameOf(fixation, aoiList) ==
    LET aoi == findAOIForFixation(fixation, aoiList)
    IN IF aoi # Null THEN ValueOf(aoi).name ELSE "__outside__"

\* Faulty variant: a name is pushed only when the sequence does not hold it yet.
RECURSIVE AOISequenceLoopDistinct(_, _, _, _, _)
AOISequenceLoopDistinct(sortedFixations, aoiList, i, aoiSequence, lastAOI) ==
    IF i > Len(sortedFixations) THEN aoiSequence
    ELSE LET aoiName == AOINameOf(sortedFixations[i], aoiList)
         IN IF \A k \in 1..Len(aoiSequence) : aoiSequence[k] # aoiName
            THEN AOISequenceLoopDistinct(sortedFixations, aoiList, i + 1,
                                         Append(aoiSequence, aoiName), Some(aoiName))
            ELSE AOISequenceLoopDistinct(sortedFixations, aoiList, i + 1,
                                         aoiSequence, lastAOI)

\* Faulty variant: the name of every fixation is pushed.
RECURSIVE AOISequenceLoopAll(_, _, _, _, _)
AOISequenceLoopAll(sortedFixations, aoiList, i, aoiSequence, lastAOI) ==
    IF i > Len(sortedFixations) THEN aoiSequence
    ELSE LET aoiName == AOINameOf(sortedFixations[i], aoiList)
         IN AOISequenceLoopAll(sortedFixations, aoiList, i + 1,
                               Append(aoiSequence, aoiName), Some(aoiName))

\* The aoiSequence loop: a name is pushed when it differs from lastAOI.
RECURSIVE AOISequenceLoop(_, _, _, _, _)
AOISequenceLoop(sortedFixations, aoiList, i, aoiSequence, lastAOI) ==
    IF i > Len(sortedFixations) THEN aoiSequence
    ELSE LET aoiName == AOINameOf(sortedFixations[i], aoiList)
         IN IF Some(aoiName) # lastAOI
            THEN AOISequenceLoop(sortedFixations, aoiList, i + 1,
                                 Append(aoiSequence, aoiName), Some(aoiName))
            ELSE AOISequenceLoop(sortedFixations, aoiList, i + 1,
                                 aoiSequence, lastAOI)

\* new Map()
EmptyMap == [k \in {} |-> 0]

\* Faulty variant: a pair of fixations with the same name is not counted.
RECURSIVE TransitionLoopCollapsed(_, _, _, _)
TransitionLoopCollapsed(sortedFixations, aoiList, i, transitionMatrix) ==
    IF i > Len(sortedFixations) THEN transitionMatrix
    ELSE LET prevName == AOINameOf(sortedFixations[i - 1], aoiList)
             currName == AOINameOf(sortedFixations[i], aoiList)
             row      == IF prevName \in DOMAIN transitionMatrix
                         THEN transitionMatrix[prevName] ELSE EmptyMap
             count    == IF currName \in DOMAIN row THEN row[currName] ELSE 0
             newRow   == [k \in DOMAIN row \cup {currName} |->
                             IF k = currName THEN count + 1 ELSE row[k]]
         IN IF prevName = currName
            THEN TransitionLoopCollapsed(sortedFixations, aoiList, i + 1,
                                         transitionMatrix)
            ELSE TransitionLoopCollapsed(sortedFixations, aoiList, i + 1,
                    [k \in DOMAIN transitionMatrix \cup {prevName} |->
                        IF k = prevName THEN newRow ELSE transitionMatrix[k]])

\* The transition-matrix loop: row.set(currName, (row.get(currName) || 0) + 1)
\* in the row of prevName, created when missing.
RECURSIVE TransitionLoop(_, _, _, _)
TransitionLoop(sortedFixations, aoiList, i, transitionMatrix) ==
    IF i > Len(sortedFixations) THEN transitionMatrix
    ELSE LET prevName == AOINameOf(sortedFixations[i - 1], aoiList)
             currName == AOINameOf(sortedFixations[i], aoiList)
             row      == IF prevName \in DOMAIN transitionMatrix
                         THEN transitionMatrix[prevName] ELSE EmptyMap
             count    == IF currName \in DOMAIN row THEN row[currName] ELSE 0
             newRow   == [k \in DOMAIN row \cup {currName} |->
                             IF k = currName THEN count + 1 ELSE row[k]]
         IN TransitionLoop(sortedFixations, aoiList, i + 1,
                [k \in DOMAIN transitionMatrix \cup {prevName} |->
                    IF k = prevName THEN newRow ELSE transitionMatrix[k]])

\* calculateScanpathMetrics.  The saccade amplitudes are held squared;
\* totalLength is the sum and meanSaccadeAmplitude the mean of their roots
\* (0 when there is none), which the model does not evaluate.
calculateScanpathMetrics(fixationList, aoiList) ==
    IF Len(fixationList) = 0
    THEN [saccadeAmplitudesSq  |-> <<>>,
          fixationCount        |-> 0,
          totalDuration        |-> 0,
          meanFixationDuration |-> Rat(0),
          aoiSequence          |-> <<>>,
          aoiTransitionMatrix  |-> EmptyMap]
    ELSE LET sortedFixations == SortByStartTime(fixationList)
             totalDuration   == SumDuration(sortedFixations)
         IN [saccadeAmplitudesSq  |->
                [i \in 1..(Len(sortedFixations) - 1) |->
                    distanceSq(sortedFixations[i].x, sortedFixations[i].y,
                               sortedFixations[i + 1].x, sortedFixations[i + 1].y)],
             fixationCount        |-> Len(sortedFixations),
             totalDuration        |-> totalDuration,
             meanFixationDuration |-> [num |-> totalDuration,
                                       den |-> Len(sortedFixations)],
             aoiSequence          |->
                AOISequenceLoop(sortedFixations, aoiList, 1, <<>>, Null),
             aoiTransitionMatrix  |->
                TransitionLoop(sortedFixations, aoiList, 2, EmptyMap)]

\* ==================== First Fixation Metrics ====================

\* Faulty variant: every fixation inside the AOI is counted as an entry.
RECURSIVE EntryCountLoopEveryFixation(_, _, _, _, _)
EntryCountLoopEveryFixation(sortedFixations, aoi, i, entryCount, wasInAOI) ==
    IF i > Len(sortedFixations) THEN entryCount
    ELSE LET isInAOI == isPointInAOI(sortedFixations[i].x, sortedFixations[i].y, aoi)
         IN EntryCountLoopEveryFixation(sortedFixations, aoi, i + 1,
                           IF isInAOI THEN entryCount + 1 ELSE entryCount,
                           isInAOI)

\* Faulty variant: wasInAOI starts true, so a first fixation that is inside the
\* AOI is not counted.
RECURSIVE EntryCountLoopFromInside(_, _, _, _, _)
EntryCountLoopFromInside(sortedFixations, aoi, i, entryCount, wasInAOI) ==
    IF i > Len(sortedFixations) THEN entryCount
    ELSE LET isInAOI == isPointInAOI(sortedFixations[i].x, sortedFixations[i].y, aoi)
         IN EntryCountLoopFromInside(sortedFixations, aoi, i + 1,
                           IF isInAOI /\ ~ (wasInAOI \/ i = 1)
                           THEN entryCount + 1 ELSE entryCount,
                           isInAOI)

\* The entry-count loop: a fixation inside the AOI after one that was not.
RECURSIVE EntryCountLoop(_, _, _, _, _)
EntryCountLoop(sortedFixations, aoi, i, entryCount, wasInAOI) ==
    IF i > Len(sortedFixations) THEN entryCount
    ELSE LET isInAOI == isPointInAOI(sortedFixations[i].x, sortedFixations[i].y, aoi)
         IN EntryCountLoop(sortedFixations, aoi, i + 1,
                           IF isInAOI /\ ~ wasInAOI THEN entryCount + 1 ELSE entryCount,
                           isInAOI)

\* The record calculateFirstFixation returns for one AOI, from the
\* time-sorted fixations counted as inside it.
FirstFixationRecord(sortedFixations, aoiFixations, aoi, videoStartTime) ==
    LET firstFixation == IF Len(aoiFixations) > 0 THEN Some(aoiFixations[1]) ELSE Null
    IN [aoiId                 |-> aoi.id,
        aoiName               |-> aoi.name,
        timeToFirstFixation   |->
            IF firstFixation # Null
            THEN Some(DurationMs(videoStartTime, ValueOf(firstFixation).startTime))
            ELSE Null,
        firstFixationDuration |->
            IF firstFixation # Null THEN Some(ValueOf(firstFixation).duration) ELSE Null,
        firstFixationX        |->
            IF firstFixation # Null THEN Some(ValueOf(firstFixation).x) ELSE Null,
        firstFixationY        |->
            IF firstFixation # Null THEN Some(ValueOf(firstFixation).y) ELSE Null,
        entryCount            |-> EntryCountLoop(sortedFixations, aoi, 1, 0, FALSE)]

\* Faulty variant: the first fixation of an AOI is looked for among the fixations
\* findAOIForFixation assigns to it.
calculateFirstFixationFirstMatch(fixationList, aoiList, videoStartTime) ==
    LET sortedFixations == SortByStartTime(fixationList)
    IN [j \in 1..Len(aoiList) |->
          FirstFixationRecord(sortedFixations,
                              SelectSeq(sortedFixations,
                                        LAMBDA f : findAOIForFixation(f, aoiList)
                                                      = Some(aoiList[j])),
                              aoiList[j], videoStartTime)]

\* calculateFirstFixation: one record per AOI, in input order.
calculateFirstFixation(fixationList, aoiList, videoStartTime) ==
    LET sortedFixations == SortByStartTime(fixationList)
    IN [j \in 1..Len(aoiList) |->
          FirstFixationRecord(sortedFixations,
                              AOIFixations(sortedFixations, aoiList[j]),
                              aoiList[j], videoStartTime)]

\* ==================== Full Analysis ====================

\* option ?? fallback
OrElse(option, fallback) == IF option # Null THEN ValueOf(option) ELSE fallback

\* analyzeGazeData: detection, then the three metrics on its fixations.  No
\* argument is validated and nothing is thrown.
analyzeGazeData(points, aoiList, opts) ==
    LET threshold      == OrElse(opts.dispersionThreshold, DEFAULT_DISPERSION_THRESHOLD)
        minDuration    == OrElse(opts.minFixationDuration, DEFAULT_MIN_FIXATION_DURATION)
        videoStartTime == OrElse(opts.videoStartTime, 0)
        found          == detectFixationsIDT(points, threshold, minDuration)
    IN [fixations            |-> found,
        dwellTimeStats       |-> calculateDwellTime(found, aoiList),
        scanpathMetrics      |-> calculateScanpathMetrics(found, aoiList),
        firstFixationMetrics |-> calculateFirstFixation(found, aoiList, videoStartTime),
        parameters           |-> [dispersionThreshold |-> threshold,
                                  minFixationDuration |-> minDuration]]

\* ==================== Export Utilities ====================

RECURSIVE Pow10(_)
Pow10(digits) == IF digits = 0 THEN 1 ELSE 10 * Pow10(digits - 1)

\* A timestamp or coordinate held in hundredths, as a rational in its unit.
FromHundredths(r) == [num |-> r.num, den |-> r.den * 100]

\* Number.prototype.toFixed(digits) on the rational r: the integer n nearest
\* to r * 10^digits, the larger one on a tie; n is the text without its
\* decimal point.  (The code rounds the double nearest to r.)
ToFixed(r, digits) == (2 * r.num * Pow10(digits) + r.den) \div (2 * r.den)

\* aois.find(a => isPointInAOI(f.x, f.y, a)), then aoi ? aoi.name : 'outside'
CSVAOIName(fixation, aoiList) ==
    LET hits == {j \in 1..Len(aoiList) :
                    isPointInAOI(fixation.x, fixation.y, aoiList[j])}
    IN IF hits # {}
       THEN aoiList[CHOOSE j \in hits : \A k \in hits : j <= k].name
       ELSE "outside"

\* analysisToCSV.  A block is its header and its rows, a row its cells in
\* column order; joining with ',' and '\n' is left out.
analysisToCSV(result, aoiList) ==
    [fixationsCSV |->
        [header |-> <<"id", "start_time_s", "end_time_s", "duration_ms", "x", "y",
                      "point_count", "aoi">>,
         rows   |-> [i \in 1..Len(result.fixations) |->
                       LET f == result.fixations[i]
                       IN <<f.id,
                            ToFixed(FromHundredths(Rat(f.startTime)), 3),
                            ToFixed(FromHundredths(Rat(f.endTime)), 3),
                            ToFixed(Rat(f.duration), 1),
                            ToFixed(FromHundredths(f.x), 4),
                            ToFixed(FromHundredths(f.y), 4),
                            f.pointCount,
                            CSVAOIName(f, aoiList)>>]],
     dwellTimeCSV |->
        [header |-> <<"aoi_id", "aoi_name", "total_dwell_ms", "fixation_count",
                      "mean_duration_ms", "percent_total">>,
         rows   |-> [k \in 1..Len(result.dwellTimeStats) |->
                       LET d == result.dwellTimeStats[k]
                       IN <<d.aoiId,
                            d.aoiName,
                            ToFixed(Rat(d.totalDwellTime), 1),
                            d.fixationCount,
                            ToFixed(d.meanFixationDuration, 1),
                            ToFixed(d.percentOfTotal, 2)>>]],
     firstFixationCSV |->
        [header |-> <<"aoi_id", "aoi_name", "ttff_ms", "first_duration_ms",
                      "first_x", "first_y", "entry_count">>,
         rows   |-> [k \in 1..Len(result.firstFixationMetrics) |->
                       LET f == result.firstFixationMetrics[k]
                       IN <<f.aoiId,
                            f.aoiName,
                            IF f.timeToFirstFixation # Null
                            THEN Some(ToFixed(Rat(ValueOf(f.timeToFirstFixation)), 1))
                            ELSE Some("N/A"),
                            IF f.firstFixationDuration # Null
                            THEN Some(ToFixed(Rat(ValueOf(f.firstFixationDuration)), 1))
                            ELSE Some("N/A"),
                            IF f.firstFixationX # Null
                            THEN Some(ToFixed(FromHundredths(ValueOf(f.firstFixationX)), 4))
                            ELSE Some("N/A"),
                            IF f.firstFixationY # Null
                            THEN Some(ToFixed(FromHundredths(ValueOf(f.firstFixationY)), 4))
                            ELSE Some("N/A"),
                            f.entryCount>>]],
     scanpathCSV |->
        [header |-> <<"metric", "value">>,
         rows   |-> << <<"total_length",
                         [rootSumOf |-> result.scanpathMetrics.saccadeAmplitudesSq,
                          digits |-> 4]>>,
                       <<"fixation_count", result.scanpathMetrics.fixationCount>>,
                       <<"total_duration_ms",
                         ToFixed(Rat(result.scanpathMetrics.totalDuration), 1)>>,
                       <<"mean_fixation_duration_ms",
                         ToFixed(result.scanpathMetrics.meanFixationDuration, 1)>>,
                       <<"mean_saccade_amplitude",
                         [rootMeanOf |-> result.scanpathMetrics.saccadeAmplitudesSq,
                          digits |-> 4]>>,
                       <<"aoi_sequence", result.scanpathMetrics.aoiSequence>> >>]]

\* ==================== Visualization Helpers ====================

\* Minimum of a non-empty finite set of integers.
MinOf(S) == CHOOSE m \in S : \A k \in S : m <= k

\* Faulty variant: the duration is scaled by the longest one, not by its place
\* between the shortest and the longest.
getScanpathDrawingDataByMax(fixationList) ==
    LET sortedFixations == SortByStartTime(fixationList)
        n               == Len(sortedFixations)
        durations       == {sortedFixations[i].duration : i \in 1..n}
        maxDuration     == MaxOf(durations)
        durationRange   == IF maxDuration = 0 THEN 1 ELSE maxDuration
    IN [circles |-> [i \in 1..n |->
                       [x      |-> sortedFixations[i].x,
                        y      |-> sortedFixations[i].y,
                        radius |-> RatAdd(Rat(5),
                                     [num |-> sortedFixations[i].duration * 25,
                                      den |-> durationRange]),
                        id     |-> sortedFixations[i].id]],
        lines   |-> [i \in 1..(IF n = 0 THEN 0 ELSE n - 1) |->
                       [x1 |-> sortedFixations[i].x,
                        y1 |-> sortedFixations[i].y,
                        x2 |-> sortedFixations[i + 1].x,
                        y2 |-> sortedFixations[i + 1].y]]]

\* getScanpathDrawingData: one circle per fixation in startTime order, its
\* radius 5 + ((duration - minDuration) / durationRange) * 25, and one line
\* between the centroids of every two successive fixations.  On an empty list
\* both maps run over nothing.
getScanpathDrawingData(fixationList) ==
    LET sortedFixations == SortByStartTime(fixationList)
        n               == Len(sortedFixations)
        durations       == {sortedFixations[i].duration : i \in 1..n}
        minDuration     == MinOf(durations)
        maxDuration     == MaxOf(durations)
        durationRange   == IF maxDuration - minDuration = 0 THEN 1
                           ELSE maxDuration - minDuration
    IN [circles |-> [i \in 1..n |->
                       [x      |-> sortedFixations[i].x,
                        y      |-> sortedFixations[i].y,
                        radius |-> RatAdd(Rat(5),
                                     [num |-> (sortedFixations[i].duration
                                                 - minDuration) * 25,
                                      den |-> durationRange]),
                        id     |-> sortedFixations[i].id]],
        lines   |-> [i \in 1..(IF n = 0 THEN 0 ELSE n - 1) |->
                       [x1 |-> sortedFixations[i].x,
                        y1 |-> sortedFixations[i].y,
                        x2 |-> sortedFixations[i + 1].x,
                        y2 |-> sortedFixations[i + 1].y]]]

\* ==================== Inputs of the detector ====================

GP(t, x, y) == [timestamp |-> t, x |-> x, y |-> y]

\* Gaze points the caller may hand in: a tight cluster around (0.50, 0.50),
\* a point exactly 0.03 from its centre, and a far cluster at (0.90, 0.90).
GazePointSet ==
    { GP(0, 50, 50), GP(5, 51, 49), GP(12, 50, 50), GP(30, 90, 90),
      GP(10, 53, 50), GP(0, 90, 90), GP(20, 50, 50), GP(20, 90, 90) }

ThresholdSet == {-1, 0, DEFAULT_DISPERSION_THRESHOLD}

MinDurationSet == {-100, 0, DEFAULT_MIN_FIXATION_DURATION}

\* ==================== Specification of the detector ====================

\* The caller's gazePoints after detectFixationsIDT: the sort is reached from
\* two points on.
GazePointsAfterDetection(points) ==
    IF Len(points) < 2 THEN points
    ELSE SortOfCopy(points, SortByTimestamp(points))

InitDetect ==
    /\ gazePoints \in SeqsUpTo(GazePointSet, MaxPoints)
    /\ dispersionThreshold \in ThresholdSet
    /\ minFixationDuration \in MinDurationSet
    /\ aois = <<>>
    /\ fixations = Null
    /\ options = Null
    /\ contains = Null
    /\ matched = Null
    /\ dwellTimeStats = Null
    /\ scanpathMetrics = Null
    /\ firstFixationMetrics = Null
    /\ analysisResult = Null
    /\ csvData = Null
    /\ drawingData = Null
    /\ idt = Null
    /\ history = <<>>
    /\ videoMode = Null
    /\ outcome = "none"
    /\ pc = "detect"

\* A call of detectFixationsIDT.  The function has no throw statement: it
\* returns a list on every input.
DetectFixations ==
    /\ pc = "detect"
    /\ fixations' = detectFixationsIDT(gazePoints, dispersionThreshold,
                                       minFixationDuration)
    /\ gazePoints' = GazePointsAfterDetection(gazePoints)
    /\ outcome' = "returned"
    /\ pc' = "detected"
    /\ UNCHANGED <<videoMode, idt, history, drawingData, aois, dispersionThreshold, minFixationDuration, options,
                   contains, matched, dwellTimeStats, scanpathMetrics,
                   firstFixationMetrics, analysisResult, csvData>>

NextDetect == DetectFixations

SpecDetect == InitDetect /\ [][NextDetect]_vars

\* ==================== Specification of the detector's loop ====================

\* The same call, one pass of its outer while at a time.

\* Two points exactly 0.03 apart, two more beside them, and three far points.
LoopPointSet ==
    { GP(0, 50, 50), GP(10, 53, 50), GP(12, 50, 50), GP(20, 50, 50),
      GP(0, 90, 90), GP(20, 90, 90), GP(30, 90, 90) }

\* <<dispersionThreshold, minDuration>>
LoopParameterSet ==
    { <<DEFAULT_DISPERSION_THRESHOLD, DEFAULT_MIN_FIXATION_DURATION>>,
      <<0, DEFAULT_MIN_FIXATION_DURATION>>,
      <<DEFAULT_DISPERSION_THRESHOLD, 0>>,
      <<-1, DEFAULT_MIN_FIXATION_DURATION>>,
      <<DEFAULT_DISPERSION_THRESHOLD, -100>> }

InitLoop ==
    /\ gazePoints \in SeqsUpTo(LoopPointSet, MaxPoints)
    /\ \E parameters \in LoopParameterSet :
          /\ dispersionThreshold = parameters[1]
          /\ minFixationDuration = parameters[2]
    /\ aois = <<>>
    /\ fixations = Null
    /\ options = Null
    /\ contains = Null
    /\ matched = Null
    /\ dwellTimeStats = Null
    /\ scanpathMetrics = Null
    /\ firstFixationMetrics = Null
    /\ analysisResult = Null
    /\ csvData = Null
    /\ drawingData = Null
    /\ idt = Null
    /\ history = <<>>
    /\ videoMode = Null
    /\ outcome = "none"
    /\ pc = "call"

\* The function up to its outer while: the early return on fewer than two
\* points, or the sorted copy and the initial locals.
IDTEnter ==
    /\ pc = "call"
    /\ \/ /\ Len(gazePoints) < 2
          /\ pc' = "returned"
          /\ fixations' = <<>>
          /\ outcome' = "returned"
          /\ UNCHANGED <<idt, gazePoints>>
       \/ /\ Len(gazePoints) >= 2
          /\ idt' = [sortedPoints |-> SortByTimestamp(gazePoints),
                     windowStart  |-> 1,
                     windowEnd    |-> 1,
                     fixations    |-> <<>>,
                     fixationId   |-> 1,
                     branch       |-> "entered"]
          /\ gazePoints' = GazePointsAfterDetection(gazePoints)
          /\ pc' = "loop"
          /\ UNCHANGED <<fixations, outcome>>
    /\ UNCHANGED <<videoMode, history, drawingData, aois, dispersionThreshold,
                   minFixationDuration, options, contains, matched, dwellTimeStats,
                   scanpathMetrics, firstFixationMetrics, analysisResult, csvData>>

\* One pass of the outer while.
IDTPass ==
    /\ pc = "loop"
    /\ idt.branch # "break"
    /\ idt.windowStart <= Len(idt.sortedPoints)
    /\ LET pass == IDTStep(idt.sortedPoints, idt.windowStart, idt.fixations,
                           idt.fixationId, dispersionThreshold,
                           minFixationDuration)
       IN /\ idt' = [sortedPoints |-> idt.sortedPoints,
                     windowStart  |-> pass.windowStart,
                     windowEnd    |-> pass.windowEnd,
                     fixations    |-> pass.fixations,
                     fixationId   |-> pass.fixationId,
                     branch       |-> pass.branch]
          /\ history' = Append(history, [windowStart |-> idt.windowStart,
                                         windowEnd   |-> pass.windowEnd,
                                         branch      |-> pass.branch])
    /\ UNCHANGED <<videoMode, drawingData, gazePoints, aois, dispersionThreshold,
                   minFixationDuration, options, fixations, contains, matched,
                   dwellTimeStats, scanpathMetrics, firstFixationMetrics,
                   analysisResult, csvData, outcome, pc>>

\* The loop is left, by its condition or by the break: return fixations.
IDTReturn ==
    /\ pc = "loop"
    /\ (idt.branch = "break" \/ idt.windowStart > Len(idt.sortedPoints))
    /\ pc' = "returned"
    /\ fixations' = idt.fixations
    /\ outcome' = "returned"
    /\ UNCHANGED <<videoMode, idt, history, drawingData, gazePoints, aois, dispersionThreshold,
                   minFixationDuration, options, contains, matched, dwellTimeStats,
                   scanpathMetrics, firstFixationMetrics, analysisResult, csvData>>

NextLoop == IDTEnter \/ IDTPass \/ IDTReturn

SpecLoop == InitLoop /\ [][NextLoop]_vars

\* The call runs on one thread to its end: a step that can be taken is taken
\* (every step changes pc or history).  Two points exactly 0.03 apart and two
\* far ones, in every order and with repeats.
RunPointSet == { GP(0, 50, 50), GP(10, 53, 50), GP(20, 90, 90), GP(30, 10, 10) }

InitLoopRuns ==
    /\ gazePoints \in SeqsUpTo(RunPointSet, MaxPoints)
    /\ \E parameters \in LoopParameterSet :
          /\ dispersionThreshold = parameters[1]
          /\ minFixationDuration = parameters[2]
    /\ aois = <<>>
    /\ fixations = <<>>
    /\ options = Null
    /\ contains = Null
    /\ matched = Null
    /\ dwellTimeStats = Null
    /\ scanpathMetrics = Null
    /\ firstFixationMetrics = Null
    /\ analysisResult = Null
    /\ csvData = Null
    /\ drawingData = Null
    /\ idt = Null
    /\ history = <<>>
    /\ videoMode = Null
    /\ outcome = "none"
    /\ pc = "call"

\* What a step of the call changes: entering the loop or returning changes
\* pc, a pass of the loop adds its entry to history.  Such a step is possible
\* exactly while the call has not returned.
CallStep ==
    \/ /\ pc = "call"
       /\ pc' \in {"loop", "returned"}
       /\ history' = history
    \/ /\ pc = "loop"
       /\ pc' = "returned"
       /\ history' = history
    \/ /\ pc = "loop"
       /\ pc' = "loop"
       /\ \E windowEnd \in 1..(Len(idt.sortedPoints) + 1),
             branch \in {"break", "recorded", "dropped", "rejected"} :
             history' = Append(history, [windowStart |-> idt.windowStart,
                                         windowEnd   |-> windowEnd,
                                         branch      |-> branch])

SpecLoopRuns ==
    InitLoopRuns /\ [][NextLoop]_vars /\ WF_<<pc, history>>(CallStep)

\* ==================== Inputs of the metrics ====================

\* A fixation as the detector records it for two samples at (x, y), or for a
\* single sample when endTime = startTime (a minimum duration <= 0).
FX(id, startTime, endTime, x, y) ==
    MakeFixation(id, IF endTime = startTime
                     THEN <<GP(startTime, x, y)>>
                     ELSE <<GP(startTime, x, y), GP(endTime, x, y)>>)

FixationSet ==
    { FX(1, 0, 10, 45, 45),      \* inside A only
      FX(2, 12, 30, 55, 50),     \* inside A and B
      FX(3, 40, 50, 60, 50),     \* on the edge A shares with C, inside B
      FX(4, 60, 75, 90, 90),     \* inside no AOI
      FX(5, 80, 80, 50, 50) }    \* zero duration, on the degenerate AOI Z

Area(id, name, x, y, width, height) ==
    [id |-> id, name |-> name,
     bounds |-> [x |-> x, y |-> y, width |-> width, height |-> height]]

AOISet ==
    { Area("aoi-1", "A", 40, 40, 20, 20),
      Area("aoi-2", "B", 50, 40, 30, 20),     \* overlaps A
      Area("aoi-3", "C", 60, 40, 20, 20),     \* adjacent to A
      Area("aoi-4", "Z", 50, 50, 0, 0),       \* zero width and height
      Area("aoi-5", "N", 70, 40, -20, 20),    \* negative width
      Area("aoi-6", "L", 60, 40, 0, 20) }     \* zero width, on A's right edge

\* ==================== Specification of the metrics ====================

InitMetrics ==
    /\ fixations \in SeqsUpTo(FixationSet, MaxFixations)
    /\ aois \in DistinctSeqsUpTo(AOISet, MaxAOIs)
    /\ gazePoints = <<>>
    /\ dispersionThreshold = DEFAULT_DISPERSION_THRESHOLD
    /\ minFixationDuration = DEFAULT_MIN_FIXATION_DURATION
    /\ options = Null
    /\ contains = Null
    /\ matched = Null
    /\ dwellTimeStats = Null
    /\ scanpathMetrics = Null
    /\ firstFixationMetrics = Null
    /\ analysisResult = Null
    /\ csvData = Null
    /\ drawingData = Null
    /\ idt = Null
    /\ history = <<>>
    /\ videoMode = Null
    /\ outcome = "none"
    /\ pc = "metrics"

\* isPointInAOI on every fixation and AOI, findAOIForFixation on every fixation.
MatchFixations ==
    /\ pc = "metrics"
    /\ contains' = [i \in 1..Len(fixations) |->
                      [j \in 1..Len(aois) |->
                          isPointInAOI(fixations[i].x, fixations[i].y, aois[j])]]
    /\ matched' = [i \in 1..Len(fixations) |-> findAOIForFixation(fixations[i], aois)]
    /\ pc' = "matched"
    /\ UNCHANGED <<videoMode, idt, history, drawingData, gazePoints, aois, dispersionThreshold, minFixationDuration, options,
                   fixations, dwellTimeStats, scanpathMetrics, firstFixationMetrics,
                   analysisResult, csvData, outcome>>

\* The three metric calls, in the order analyzeGazeData makes them.
CalculateDwellTime ==
    /\ pc = "matched"
    /\ dwellTimeStats' = calculateDwellTime(fixations, aois)
    /\ pc' = "dwell"
    /\ UNCHANGED <<videoMode, idt, history, drawingData, gazePoints, aois, dispersionThreshold, minFixationDuration, options,
                   fixations, contains, matched, scanpathMetrics,
                   firstFixationMetrics, analysisResult, csvData, outcome>>

CalculateScanpathMetrics ==
    /\ pc = "dwell"
    /\ scanpathMetrics' = calculateScanpathMetrics(fixations, aois)
    /\ fixations' = IF Len(fixations) = 0 THEN fixations
                    ELSE SortOfCopy(fixations, SortByStartTime(fixations))
    /\ pc' = "scanpath"
    /\ UNCHANGED <<videoMode, idt, history, drawingData, gazePoints, aois, dispersionThreshold, minFixationDuration, options,
                   contains, matched, dwellTimeStats,
                   firstFixationMetrics, analysisResult, csvData, outcome>>

CalculateFirstFixation ==
    /\ pc = "scanpath"
    /\ firstFixationMetrics' = calculateFirstFixation(fixations, aois, 0)
    /\ fixations' = SortOfCopy(fixations, SortByStartTime(fixations))
    /\ pc' = "measured"
    /\ UNCHANGED <<videoMode, idt, history, drawingData, gazePoints, aois, dispersionThreshold, minFixationDuration, options,
                   contains, matched, dwellTimeStats, scanpathMetrics,
                   analysisResult, csvData, outcome>>

\* A call of getScanpathDrawingData on the same fixations.
GetScanpathDrawingData ==
    /\ pc = "measured"
    /\ drawingData' = getScanpathDrawingData(fixations)
    /\ fixations' = SortOfCopy(fixations, SortByStartTime(fixations))
    /\ pc' = "drawn"
    /\ UNCHANGED <<videoMode, idt, history, gazePoints, aois, dispersionThreshold,
                   minFixationDuration, options, contains, matched, dwellTimeStats,
                   scanpathMetrics, firstFixationMetrics, analysisResult, csvData,
                   outcome>>

NextMetrics ==
    \/ MatchFixations
    \/ CalculateDwellTime
    \/ CalculateScanpathMetrics
    \/ CalculateFirstFixation
    \/ GetScanpathDrawingData

SpecMetrics == InitMetrics /\ [][NextMetrics]_vars

\* ==================== Specification of the metrics on longer lists ====================

\* The same calls on longer fixation lists and on the AOIs of positive area:
\* "A", "B" that overlaps it and "C" that shares an edge with it.
ScanpathAOISet ==
    { Area("aoi-1", "A", 40, 40, 20, 20),
      Area("aoi-2", "B", 50, 40, 30, 20),
      Area("aoi-3", "C", 60, 40, 20, 20) }

InitScanpath ==
    /\ fixations \in SeqsUpTo(FixationSet, MaxScanpathFixations)
    /\ aois \in DistinctSeqsUpTo(ScanpathAOISet, MaxAOIs)
    /\ gazePoints = <<>>
    /\ dispersionThreshold = DEFAULT_DISPERSION_THRESHOLD
    /\ minFixationDuration = DEFAULT_MIN_FIXATION_DURATION
    /\ options = Null
    /\ contains = Null
    /\ matched = Null
    /\ dwellTimeStats = Null
    /\ scanpathMetrics = Null
    /\ firstFixationMetrics = Null
    /\ analysisResult = Null
    /\ csvData = Null
    /\ drawingData = Null
    /\ idt = Null
    /\ history = <<>>
    /\ videoMode = Null
    /\ outcome = "none"
    /\ pc = "metrics"

SpecScanpath == InitScanpath /\ [][NextMetrics]_vars

\* ==================== Specification of the full analysis ====================

\* Gaze points of two clusters, one inside AOI "A" only and one inside no AOI.
AnalysisPointSet ==
    { GP(0, 45, 45), GP(10, 45, 45), GP(20, 90, 90), GP(30, 90, 90) }

AnalysisAOISet ==
    { Area("aoi-1", "A", 40, 40, 20, 20),
      Area("aoi-2", "B", 50, 40, 30, 20),
      Area("aoi-5", "N", 70, 40, -20, 20) }

\* No option given; the options VideoMode.runAnalysis passes with the form's
\* initial values; a minimum duration of 0.
OptionsSet ==
    { [dispersionThreshold |-> Null, minFixationDuration |-> Null,
       videoStartTime |-> Null],
      [dispersionThreshold |-> Some(DEFAULT_DISPERSION_THRESHOLD),
       minFixationDuration |-> Some(DEFAULT_MIN_FIXATION_DURATION),
       videoStartTime |-> Some(0)],
      [dispersionThreshold |-> Some(DEFAULT_DISPERSION_THRESHOLD),
       minFixationDuration |-> Some(0),
       videoStartTime |-> Null] }

Init ==
    /\ gazePoints \in SeqsUpTo(AnalysisPointSet, MaxPoints)
    /\ aois \in DistinctSeqsUpTo(AnalysisAOISet, MaxAOIs)
    /\ options \in OptionsSet
    /\ dispersionThreshold = DEFAULT_DISPERSION_THRESHOLD
    /\ minFixationDuration = DEFAULT_MIN_FIXATION_DURATION
    /\ fixations = Null
    /\ contains = Null
    /\ matched = Null
    /\ dwellTimeStats = Null
    /\ scanpathMetrics = Null
    /\ firstFixationMetrics = Null
    /\ analysisResult = Null
    /\ csvData = Null
    /\ drawingData = Null
    /\ idt = Null
    /\ history = <<>>
    /\ videoMode = Null
    /\ outcome = "none"
    /\ pc = "analysis"

\* A call of analyzeGazeData: it returns an AnalysisResult on every input.
AnalyzeGazeData ==
    /\ pc = "analysis"
    /\ analysisResult' = analyzeGazeData(gazePoints, aois, options)
    /\ gazePoints' = GazePointsAfterDetection(gazePoints)
    /\ outcome' = "returned"
    /\ pc' = "analyzed"
    /\ UNCHANGED <<videoMode, idt, history, drawingData, aois, dispersionThreshold, minFixationDuration,
                   options, fixations, contains, matched, dwellTimeStats,
                   scanpathMetrics, firstFixationMetrics, csvData>>

\* A call of analysisToCSV on the result, with the same AOI list.
AnalysisToCSV ==
    /\ pc = "analyzed"
    /\ csvData' = analysisToCSV(analysisResult, aois)
    /\ pc' = "exported"
    /\ UNCHANGED <<videoMode, idt, history, drawingData, gazePoints, aois, dispersionThreshold, minFixationDuration,
                   options, fixations, contains, matched, dwellTimeStats,
                   scanpathMetrics, firstFixationMetrics, analysisResult, outcome>>

Next == AnalyzeGazeData \/ AnalysisToCSV

Spec == Init /\ [][Next]_vars

\* ==================== Specification of the calls on caller-owned arrays ====================

\* The metric calls on any fixation list, and the full analysis on any gaze
\* point list.
InitCalls == InitMetrics \/ Init

NextCalls == NextMetrics \/ Next

SpecCalls == InitCalls /\ [][NextCalls]_vars

\* ==================== Specification of VideoMode ====================

\* The analysis panel of VideoMode: this.gazePoints as recorded, this.aois,
\* this.nextAoiId, this.analysisResult, and the CSV blocks handed to
\* downloadText.

\* The id counter is followed up to this value.
MaxAoiId == 3

\* `aoi-${n}`
AoiIdOf(n) == <<"aoi-1", "aoi-2", "aoi-3", "aoi-4", "aoi-5", "aoi-6">>[n]

\* Recorded gaze: two points 100 ms apart, inside the first rectangle of
\* DragSet only.
VideoPointSet == { GP(0, 45, 45), GP(10, 45, 45) }

\* <<minX, minY, width, height>> of a drag on the AOI canvas; the last one is
\* exactly 0.01 wide.
DragSet == { <<40, 40, 20, 20>>, <<50, 40, 30, 20>>, <<40, 40, 1, 20>> }

\* nameInput.value.trim()
AOINameSet == { "A" }

\* The options runAnalysis reads from the form, left at its initial values.
FormOptions ==
    [dispersionThreshold |-> Some(DEFAULT_DISPERSION_THRESHOLD),
     minFixationDuration |-> Some(DEFAULT_MIN_FIXATION_DURATION),
     videoStartTime      |-> Some(0)]

InitVideoMode ==
    /\ \E recorded \in SeqsUpTo(VideoPointSet, MaxPoints) :
          videoMode = [gazePoints     |-> recorded,
                       aois           |-> <<>>,
                       nextAoiId      |-> 1,
                       analysisResult |-> Null,
                       downloads      |-> Null]
    /\ gazePoints = <<>>
    /\ aois = <<>>
    /\ options = Null
    /\ dispersionThreshold = DEFAULT_DISPERSION_THRESHOLD
    /\ minFixationDuration = DEFAULT_MIN_FIXATION_DURATION
    /\ fixations = Null
    /\ contains = Null
    /\ matched = Null
    /\ dwellTimeStats = Null
    /\ scanpathMetrics = Null
    /\ firstFixationMetrics = Null
    /\ analysisResult = Null
    /\ csvData = Null
    /\ drawingData = Null
    /\ idt = Null
    /\ history = <<>>
    /\ outcome = "none"
    /\ pc = "video"

\* this.aois.filter(a => a.id !== id)
WithoutAOI(aoiList, id) == SelectSeq(aoiList, LAMBDA a : a.id # id)

\* onAOIMouseUp at the end of a drag: a rectangle more than 0.01 wide and high
\* is pushed with the next id; a smaller one is dropped.
OnAOIMouseUp ==
    /\ pc = "video"
    /\ Len(videoMode.aois) < MaxAOIs
    /\ videoMode.nextAoiId <= MaxAoiId
    /\ \E drag \in DragSet, name \in AOINameSet :
          videoMode' =
              IF drag[3] > 1 /\ drag[4] > 1
              THEN [videoMode EXCEPT
                       !.aois = Append(@, Area(AoiIdOf(videoMode.nextAoiId), name,
                                               drag[1], drag[2], drag[3], drag[4])),
                       !.nextAoiId = @ + 1]
              ELSE videoMode
    /\ outcome' = "drawn"
    /\ UNCHANGED <<idt, history, drawingData, gazePoints, aois, dispersionThreshold,
                   minFixationDuration, options, fixations, contains, matched,
                   dwellTimeStats, scanpathMetrics, firstFixationMetrics,
                   analysisResult, csvData, pc>>

\* deleteAOI(id), from the delete button of a listed AOI.
DeleteAOI ==
    /\ pc = "video"
    /\ \E k \in 1..Len(videoMode.aois) :
          videoMode' = [videoMode EXCEPT
                           !.aois = WithoutAOI(@, videoMode.aois[k].id)]
    /\ outcome' = "deleted"
    /\ UNCHANGED <<idt, history, drawingData, gazePoints, aois, dispersionThreshold,
                   minFixationDuration, options, fixations, contains, matched,
                   dwellTimeStats, scanpathMetrics, firstFixationMetrics,
                   analysisResult, csvData, pc>>

\* runAnalysis: an alert without gaze data, else the result of analyzeGazeData
\* on this.gazePoints and this.aois is stored.
RunAnalysis ==
    /\ pc = "video"
    /\ \/ /\ Len(videoMode.gazePoints) = 0
          /\ outcome' = "alert"
          /\ UNCHANGED videoMode
       \/ /\ Len(videoMode.gazePoints) # 0
          /\ videoMode' = [videoMode EXCEPT
                              !.gazePoints = GazePointsAfterDetection(@),
                              !.analysisResult =
                                  Some(analyzeGazeData(videoMode.gazePoints,
                                                       videoMode.aois,
                                                       FormOptions))]
          /\ outcome' = "analyzed"
    /\ UNCHANGED <<idt, history, drawingData, gazePoints, aois, dispersionThreshold,
                   minFixationDuration, options, fixations, contains, matched,
                   dwellTimeStats, scanpathMetrics, firstFixationMetrics,
                   analysisResult, csvData, pc>>

\* exportAnalysis: nothing without a stored result, else the blocks of
\* analysisToCSV(this.analysisResult, this.aois) are downloaded.
ExportAnalysis ==
    /\ pc = "video"
    /\ \/ /\ videoMode.analysisResult = Null
          /\ outcome' = "ignored"
          /\ UNCHANGED videoMode
       \/ /\ videoMode.analysisResult # Null
          /\ videoMode' = [videoMode EXCEPT
                              !.downloads =
                                  Some(analysisToCSV(ValueOf(videoMode.analysisResult),
                                                     videoMode.aois))]
          /\ outcome' = "exported"
    /\ UNCHANGED <<idt, history, drawingData, gazePoints, aois, dispersionThreshold,
                   minFixationDuration, options, fixations, contains, matched,
                   dwellTimeStats, scanpathMetrics, firstFixationMetrics,
                   analysisResult, csvData, pc>>

NextVideoMode == OnAOIMouseUp \/ DeleteAOI \/ RunAnalysis \/ ExportAnalysis

SpecVideoMode == InitVideoMode /\ [][NextVideoMode]_vars

\* ==================== Claims on the detector ====================

\* Some pair of points of the list is further apart than the threshold.
Disperses(points, threshold) ==
    \E i, j \in 1..Len(points) :
        ~ (threshold >= 0 /\ DistSq(points[i], points[j]) <= threshold * threshold)

\* C2: every fixation returned by detectFixationsIDT has
\* duration = (endTime - startTime) * 1000 >= minDuration, and no two of its
\* points are further apart than dispersionThreshold.
C2_DurationAndDispersion ==
    pc = "detected" =>
        \A i \in 1..Len(fixations) :
            /\ fixations[i].duration
                  = (fixations[i].endTime - fixations[i].startTime) * 10
            /\ fixations[i].duration >= minFixationDuration
            /\ ~ Disperses(fixations[i].points, dispersionThreshold)

\* C2 witness: a fixation of several points was returned although the input
\* as a whole disperses beyond the threshold, under a positive minimum.
C2_Witness ==
    /\ pc = "detected"
    /\ minFixationDuration > 0
    /\ Disperses(gazePoints, dispersionThreshold)
    /\ \E i \in 1..Len(fixations) : fixations[i].pointCount >= 3

\* C3: the returned list has ids 1, 2, ..., n in list order and startTime
\* non-decreasing along the list.
C3_IdsAndOrder ==
    pc = "detected" =>
        /\ \A i \in 1..Len(fixations) : fixations[i].id = i
        /\ \A i \in 1..Len(fixations) : \A j \in i..Len(fixations) :
              fixations[i].startTime <= fixations[j].startTime

\* C3 witness: two fixations were returned for an input that was not in
\* timestamp order.
C3_Witness ==
    /\ pc = "detected"
    /\ minFixationDuration > 0
    /\ Len(fixations) >= 2
    /\ \E i \in 1..Len(gazePoints) : \E j \in i..Len(gazePoints) :
          gazePoints[i].timestamp > gazePoints[j].timestamp

\* C10 (as claimed): a detection call with a non-positive minimum duration or a
\* negative dispersion threshold ends in an InvalidParameters error.
C10_InvalidParametersRejected ==
    (/\ pc = "detected"
     /\ (minFixationDuration <= 0 \/ dispersionThreshold < 0))
        => outcome = "InvalidParameters"

\* ==================== Claims on the metrics ====================

\* The metrics' positions at which contains and matched, the dwell-time
\* records and the first-fixation records are set.
MatchedDone == pc \in {"matched", "dwell", "scanpath", "measured", "drawn"}

DwellDone == pc \in {"dwell", "scanpath", "measured", "drawn"}

\* Fixations whose centroid AOI j contains, fixations no AOI contains, and
\* fixations findAOIForFixation resolves to AOI j.
InsideOf(j) == {i \in 1..Len(fixations) : contains[i][j]}

InsideNone == {i \in 1..Len(fixations) : \A j \in 1..Len(aois) : ~ contains[i][j]}

ResolvedTo(j) == {i \in 1..Len(fixations) : matched[i] = Some(aois[j])}

RECURSIVE RatSumSeq(_)
RatSumSeq(q) == IF q = <<>> THEN Rat(0) ELSE RatAdd(Head(q), RatSumSeq(Tail(q)))

\* The sum of percentOfTotal over all dwell-time records.
PercentSum ==
    RatSumSeq([k \in 1..Len(dwellTimeStats) |-> dwellTimeStats[k].percentOfTotal])

\* C1 (as claimed): with at least one fixation, for every AOI list
\* (overlapping AOIs included), the percentOfTotal values of all records of
\* calculateDwellTime sum to 100.  Stated on the lists whose fixations all
\* last longer than 0 ms.
C1_PercentagesSumTo100 ==
    (/\ DwellDone
     /\ Len(fixations) >= 1
     /\ \A i \in 1..Len(fixations) : fixations[i].duration > 0)
        => RatEq(PercentSum, Rat(100))

\* C1 (amended): when the fixation durations sum to more than 0 and no
\* fixation centroid lies in more than one AOI, the percentOfTotal values of
\* all records of calculateDwellTime sum to 100.
C1_PercentagesSumTo100_Disjoint ==
    (/\ DwellDone
     /\ SumDuration(fixations) > 0
     /\ \A i \in 1..Len(fixations) :
           Cardinality({j \in 1..Len(aois) : contains[i][j]}) <= 1)
        => RatEq(PercentSum, Rat(100))

\* C1 witness: two AOIs, a fixation inside exactly one of them (the second)
\* and a fixation inside none, no fixation inside both.
C1_Witness ==
    /\ DwellDone
    /\ Len(aois) = 2
    /\ SumDuration(fixations) > 0
    /\ \A i \in 1..Len(fixations) :
          Cardinality({j \in 1..Len(aois) : contains[i][j]}) <= 1
    /\ \E i \in 1..Len(fixations) :
          ~ contains[i][1] /\ contains[i][2] /\ fixations[i].duration > 0
    /\ InsideNone # {}

\* C4: when AOIs a then b (in list order) both contain a fixation's centroid
\* and no earlier AOI does, findAOIForFixation returns a, and calculateDwellTime
\* counts the fixation in the records of a and of b and not in "Outside AOIs":
\* each record counts exactly the fixations its AOI contains, the outside
\* record those no AOI contains (1, 1 and 0 for a single such fixation).
C4_OverlapFirstMatchAndFullCredit ==
    DwellDone =>
        \A i \in 1..Len(fixations) : \A a, b \in 1..Len(aois) :
            (/\ a < b
             /\ contains[i][a]
             /\ contains[i][b]
             /\ \A k \in 1..(a - 1) : ~ contains[i][k])
            => /\ matched[i] = Some(aois[a])
               /\ dwellTimeStats[a].fixationCount = Cardinality(InsideOf(a))
               /\ dwellTimeStats[b].fixationCount = Cardinality(InsideOf(b))
               /\ i \in InsideOf(a) \cap InsideOf(b)
               /\ dwellTimeStats[Len(aois) + 1].fixationCount = Cardinality(InsideNone)
               /\ i \notin InsideNone
               /\ Len(fixations) = 1 =>
                     /\ dwellTimeStats[a].fixationCount = 1
                     /\ dwellTimeStats[b].fixationCount = 1
                     /\ dwellTimeStats[Len(aois) + 1].fixationCount = 0

\* C4 witness: a single fixation inside both AOIs "A" and "B", listed in
\* that order.
C4_Witness ==
    /\ DwellDone
    /\ Len(fixations) = 1
    /\ Len(aois) = 2
    /\ aois[1].name = "A"
    /\ aois[2].name = "B"
    /\ contains[1][1]
    /\ contains[1][2]

\* The earliest start time among the fixations of a non-empty index set.
EarliestStart(S) ==
    CHOOSE t \in {fixations[i].startTime : i \in S} :
        \A i \in S : t <= fixations[i].startTime

Degenerate(aoi) == aoi.bounds.width = 0 \/ aoi.bounds.height = 0

\* C7 (as claimed): isPointInAOI returns false on every point for an AOI
\* whose width or height is zero.
C7_DegenerateNeverMatches ==
    MatchedDone =>
        \A i \in 1..Len(fixations) : \A j \in 1..Len(aois) :
            Degenerate(aois[j]) => ~ contains[i][j]

\* C7 (amended): an AOI whose width or height is zero is accepted, and
\* isPointInAOI returns true for it exactly on its degenerate extent: with
\* width 0 on the points with x = aoi.x and aoi.y <= y <= aoi.y + height,
\* with height 0 on the points with y = aoi.y and aoi.x <= x <= aoi.x + width;
\* so the point (aoi.x, aoi.y) is inside an AOI of width = height = 0.
C7_DegenerateMatchesItsExtent ==
    MatchedDone =>
        \A i \in 1..Len(fixations) : \A j \in 1..Len(aois) :
            LET b == aois[j].bounds
                x == fixations[i].x
                y == fixations[i].y
            IN /\ b.width = 0 =>
                    (contains[i][j] <=>
                        /\ x.num = b.x * x.den
                        /\ b.y * y.den <= y.num
                        /\ y.num <= (b.y + b.height) * y.den)
               /\ b.height = 0 =>
                    (contains[i][j] <=>
                        /\ y.num = b.y * y.den
                        /\ b.x * x.den <= x.num
                        /\ x.num <= (b.x + b.width) * x.den)

\* C7 witness: a fixation at the corner (aoi.x, aoi.y) of an AOI of width and
\* height 0 is inside it, and another fixation is not.
C7_Witness ==
    /\ MatchedDone
    /\ \E j \in 1..Len(aois) :
          /\ aois[j].bounds.width = 0
          /\ aois[j].bounds.height = 0
          /\ \E i \in 1..Len(fixations) :
                /\ RatEq(fixations[i].x, Rat(aois[j].bounds.x))
                /\ RatEq(fixations[i].y, Rat(aois[j].bounds.y))
                /\ contains[i][j]
          /\ \E i \in 1..Len(fixations) : ~ contains[i][j]

\* C8: isPointInAOI(x, y, aoi) is true exactly when aoi.x <= x <= aoi.x + width
\* and aoi.y <= y <= aoi.y + height, inclusive on all four edges, so a point on
\* the edge shared by two adjacent AOIs is inside both.
C8_InclusiveOnAllEdges ==
    MatchedDone =>
        /\ \A i \in 1..Len(fixations) : \A j \in 1..Len(aois) :
              LET b == aois[j].bounds
                  x == fixations[i].x
                  y == fixations[i].y
              IN contains[i][j] <=>
                    /\ x.num \in (b.x * x.den)..((b.x + b.width) * x.den)
                    /\ y.num \in (b.y * y.den)..((b.y + b.height) * y.den)
        /\ \A i \in 1..Len(fixations) : \A j, k \in 1..Len(aois) :
              LET a == aois[j].bounds
                  b == aois[k].bounds
                  x == fixations[i].x
                  y == fixations[i].y
              IN (/\ a.width > 0 /\ b.width > 0
                  /\ a.x + a.width = b.x
                  /\ x.num = b.x * x.den
                  /\ y.num \in (a.y * y.den)..((a.y + a.height) * y.den)
                  /\ y.num \in (b.y * y.den)..((b.y + b.height) * y.den))
                 => contains[i][j] /\ contains[i][k]

\* C8 witness: a fixation on the edge x = 0.60 shared by the adjacent AOIs "A"
\* and "C" is inside both.
C8_Witness ==
    /\ MatchedDone
    /\ \E i \in 1..Len(fixations) : \E j, k \in 1..Len(aois) :
          /\ aois[j].name = "A"
          /\ aois[k].name = "C"
          /\ aois[j].bounds.x + aois[j].bounds.width = aois[k].bounds.x
          /\ RatEq(fixations[i].x, Rat(aois[k].bounds.x))
          /\ contains[i][j]
          /\ contains[i][k]

\* ==================== Claims on the full analysis ====================

\* Fixations of the analysis result that findAOIForFixation matches to no AOI.
Unmatched ==
    {i \in 1..Len(analysisResult.fixations) :
        findAOIForFixation(analysisResult.fixations[i], aois) = Null}

\* The keys of the transition matrix: those of its rows and of each row.
MatrixKeys(matrix) == DOMAIN matrix \cup UNION {DOMAIN matrix[k] : k \in DOMAIN matrix}

\* C6 (as claimed): the category of a fixation matched by no AOI is spelled
\* the same in the aoi column of the fixations CSV, in the dwell-time record
\* for unmatched fixations, in aoiSequence and in the aoiTransitionMatrix keys
\* (stated for analyses with a positive minimum duration).
C6_OutsideSpelledTheSame ==
    (/\ pc = "exported"
     /\ analysisResult.parameters.minFixationDuration > 0
     /\ Unmatched # {}) =>
        LET stats    == analysisResult.dwellTimeStats
            sentinel == stats[Len(stats)].aoiName
            names    == {aois[j].name : j \in 1..Len(aois)}
            seq      == analysisResult.scanpathMetrics.aoiSequence
            matrix   == analysisResult.scanpathMetrics.aoiTransitionMatrix
        IN /\ \A i \in Unmatched : csvData.fixationsCSV.rows[i][8] = sentinel
           /\ \A k \in 1..Len(seq) : seq[k] \in names \cup {sentinel}
           /\ MatrixKeys(matrix) \subseteq names \cup {sentinel}

\* C9 (as claimed): an analysis call given an AOI with negative width or
\* height ends in an InvalidAOI error and returns no AnalysisResult.
C9_NegativeAOIRejected ==
    (/\ pc \in {"analyzed", "exported"}
     /\ \E j \in 1..Len(aois) :
           aois[j].bounds.width < 0 \/ aois[j].bounds.height < 0)
        => outcome = "InvalidAOI"

\* ==================== Claims on the detector, continued ====================

\* The four gaze points of the scenario, in the order given.
ScenarioPoints == <<GP(0, 50, 50), GP(5, 51, 49), GP(12, 50, 50), GP(30, 90, 90)>>

\* The scenario was run: these points, threshold 0.03, minimum 100 ms.
ScenarioDetected ==
    /\ pc = "detected"
    /\ gazePoints = ScenarioPoints
    /\ dispersionThreshold = 3
    /\ minFixationDuration = 100

\* C12: on the scenario detectFixationsIDT returns exactly one fixation, made
\* of the first three points: startTime 0, endTime 0.12, duration 120 ms,
\* pointCount 3; the fourth point yields no fixation.
C12_ScenarioOneFixation ==
    ScenarioDetected =>
        /\ Len(fixations) = 1
        /\ fixations[1].startTime = 0
        /\ fixations[1].endTime = 12
        /\ fixations[1].duration = 120
        /\ fixations[1].pointCount = 3
        /\ fixations[1].points = SubSeq(ScenarioPoints, 1, 3)

\* C12 witness: the scenario was run and returned a fixation.
C12_Witness ==
    /\ ScenarioDetected
    /\ Len(fixations) >= 1

\* The timestamps of the list are pairwise distinct.
DistinctTimestamps(points) ==
    \A i, j \in 1..Len(points) :
        points[i].timestamp = points[j].timestamp => i = j

\* The one arrangement of the list's points in ascending timestamp order.
Ascending(points) ==
    CHOOSE q \in [1..Len(points) -> {points[i] : i \in 1..Len(points)}] :
        \A i \in 1..Len(q) : \A j \in 1..Len(q) :
            i < j => q[i].timestamp < q[j].timestamp

\* C17: for pairwise distinct timestamps the returned list depends on the
\* points only, not on their order: every permutation of the input returns
\* what its ascending arrangement returns.
C17_OrderOfInputIrrelevant ==
    (pc = "detected" /\ DistinctTimestamps(gazePoints)) =>
        fixations = detectFixationsIDT(Ascending(gazePoints), dispersionThreshold,
                                       minFixationDuration)

\* C17 witness: an input out of timestamp order, with distinct timestamps,
\* returned a fixation under a positive minimum.
C17_Witness ==
    /\ pc = "detected"
    /\ DistinctTimestamps(gazePoints)
    /\ gazePoints # Ascending(gazePoints)
    /\ minFixationDuration > 0
    /\ Len(fixations) >= 1

\* ==================== Claims on the metrics, continued ====================

C15_OneRecordPerAOIThenOutside ==
    DwellDone =>
        /\ Len(dwellTimeStats) = Len(aois) + 1
        /\ \A j \in 1..Len(aois) :
              /\ dwellTimeStats[j].aoiId = aois[j].id
              /\ dwellTimeStats[j].aoiName = aois[j].name
        /\ dwellTimeStats[Len(aois) + 1].aoiId = "__outside__"
        /\ dwellTimeStats[Len(aois) + 1].aoiName = "Outside AOIs"

\* C15 witness: two AOIs and no fixation.
C15_Witness ==
    /\ DwellDone
    /\ Len(aois) = 2
    /\ Len(fixations) = 0

\* ==================== Claims on the calls on caller-owned arrays ====================

\* C16: no call changes what it was handed: the gaze point array, the AOI
\* array and the fixation array have the same elements in the same order after
\* every call, and analysisToCSV leaves the analysis result as it was.
C16_InputsUnchanged ==
    [][/\ gazePoints' = gazePoints
       /\ aois' = aois
       /\ fixations' = fixations
       /\ pc = "analyzed" => analysisResult' = analysisResult]_vars

\* C16 witness: every metric call and getScanpathDrawingData have run on a
\* fixation list that is not in startTime order.
C16_Witness ==
    /\ pc = "drawn"
    /\ Len(aois) >= 1
    /\ \E i \in 1..Len(fixations) : \E j \in i..Len(fixations) :
          fixations[i].startTime > fixations[j].startTime

\* ==================== Claims on the detector's loop ====================

\* The dispersion of the list is exactly the threshold: no pair of its points
\* is further apart, and some pair (or the single point, at distance 0 from
\* itself) is exactly that far apart.
AtThreshold(points, threshold) ==
    /\ threshold >= 0
    /\ \A i, j \in 1..Len(points) :
          DistSq(points[i], points[j]) <= threshold * threshold
    /\ \E i, j \in 1..Len(points) :
          DistSq(points[i], points[j]) = threshold * threshold

\* Some window starting at index i spans the minimum duration, and the last
\* index of the shortest such window.
SpansMinimum(sortedPoints, i, minDuration) ==
    \E k \in i..Len(sortedPoints) :
        (sortedPoints[k].timestamp - sortedPoints[i].timestamp) * 10 >= minDuration

ShortestSpan(sortedPoints, i, minDuration) ==
    CHOOSE k \in i..Len(sortedPoints) :
        /\ (sortedPoints[k].timestamp - sortedPoints[i].timestamp) * 10 >= minDuration
        /\ \A j \in i..(k - 1) :
              (sortedPoints[j].timestamp - sortedPoints[i].timestamp) * 10
                  < minDuration

\* The loop has made a pass.
Passed == Len(history) > 0

\* The window start the pass after pass i began with, or will begin with.
StartAfter(i) ==
    IF i < Len(history) THEN history[i + 1].windowStart ELSE idt.windowStart

RecordedPasses == SelectSeq(history, LAMBDA pass : pass.branch = "recorded")

\* C18: the points of the i-th fixation are the non-empty run
\* sortedPoints[s..e] the i-th recording pass covered, the run of each
\* fixation starts after the run of the one before it ends, and the pointCounts
\* sum to at most the number of input points.
C18_RunsContiguousAndDisjoint ==
    Passed =>
        LET sortedPoints == idt.sortedPoints
            found        == idt.fixations
            runs         == RecordedPasses
        IN /\ Len(found) = Len(runs)
           /\ \A i \in 1..Len(found) :
                 /\ 1 <= runs[i].windowStart
                 /\ runs[i].windowStart <= runs[i].windowEnd
                 /\ runs[i].windowEnd <= Len(sortedPoints)
                 /\ found[i].points = SubSeq(sortedPoints, runs[i].windowStart,
                                             runs[i].windowEnd)
                 /\ found[i].pointCount = runs[i].windowEnd - runs[i].windowStart + 1
                 /\ i > 1 => runs[i].windowStart > runs[i - 1].windowEnd
           /\ SumSeq([i \in 1..Len(found) |-> found[i].pointCount])
                 <= Len(gazePoints)
           /\ pc = "returned" => fixations = found

\* C18 witness: two fixations of several points each were returned under a
\* positive minimum.
C18_Witness ==
    /\ pc = "returned"
    /\ Passed
    /\ minFixationDuration > 0
    /\ Len(fixations) >= 2
    /\ \A i \in 1..Len(fixations) : fixations[i].pointCount >= 2

C20_ResumesOnePointOn ==
    Passed =>
        \A i \in 1..Len(history) :
            LET sortedPoints == idt.sortedPoints
                s == history[i].windowStart
            IN (/\ SpansMinimum(sortedPoints, s, minFixationDuration)
                /\ Disperses(SubSeq(sortedPoints, s,
                                    ShortestSpan(sortedPoints, s,
                                                 minFixationDuration)),
                             dispersionThreshold))
                   => /\ history[i].branch = "rejected"
                      /\ StartAfter(i) = s + 1

\* C20 witness: a fixation starts inside a window of several points that an
\* earlier pass rejected.
C20_Witness ==
    /\ Passed
    /\ minFixationDuration > 0
    /\ \E i, j \in 1..Len(history) :
          /\ i < j
          /\ history[i].branch = "rejected"
          /\ history[j].branch = "recorded"
          /\ history[i].windowStart < history[j].windowStart
          /\ history[j].windowStart <= history[i].windowEnd

\* ==================== Claims on the scanpath ====================

\* The position at which the scanpath metrics are set.
ScanpathDone == pc \in {"scanpath", "measured", "drawn"}

\* The list in startTime order, fixations of equal startTime in the order of
\* the list: the earliest ones first, then the rest in the same way.
RECURSIVE InTimeOrder(_)
InTimeOrder(fixationList) ==
    IF fixationList = <<>> THEN <<>>
    ELSE LET earliest == CHOOSE t \in {fixationList[i].startTime :
                                          i \in 1..Len(fixationList)} :
                            \A i \in 1..Len(fixationList) :
                                t <= fixationList[i].startTime
         IN SelectSeq(fixationList, LAMBDA f : f.startTime = earliest)
               \o InTimeOrder(SelectSeq(fixationList,
                                        LAMBDA f : f.startTime # earliest))

\* The label of a fixation of the input: the name of the AOI
\* findAOIForFixation resolved it to, or the scanpath's word for none.
LabelOf(fixation) ==
    LET i == CHOOSE k \in 1..Len(fixations) : fixations[k] = fixation
    IN IF matched[i] = Null THEN "__outside__" ELSE ValueOf(matched[i]).name

\* The labels of the fixations in time order, consecutive duplicates kept.
Labels == [i \in 1..Len(fixations) |-> LabelOf(InTimeOrder(fixations)[i])]

\* The positions of Labels at which a run of equal labels begins.
RunStarts == {i \in 1..Len(Labels) : i = 1 \/ Labels[i] # Labels[i - 1]}

\* The k-th smallest element of a set of numbers.
Kth(S, k) == CHOOSE p \in S : Cardinality({q \in S : q < p}) = k - 1

\* C21: aoiSequence is the list of labels in time order with every run of
\* equal labels collapsed to one entry: no two adjacent entries are equal, and
\* a label that comes back after another one is entered again (A, A, B, A
\* gives A, B, A).
C21_ConsecutiveDuplicatesCollapsed ==
    ScanpathDone =>
        LET aoiSequence == scanpathMetrics.aoiSequence
        IN /\ \A k \in 1..(Len(aoiSequence) - 1) : aoiSequence[k] # aoiSequence[k + 1]
           /\ Len(aoiSequence) = Cardinality(RunStarts)
           /\ \A k \in 1..Len(aoiSequence) : aoiSequence[k] = Labels[Kth(RunStarts, k)]

\* C21 witness: four fixations resolve in time order to X, X, Y, X for two
\* AOIs X and Y, and the sequence has three entries.
C21_Witness ==
    /\ ScanpathDone
    /\ Len(fixations) = 4
    /\ Labels[1] = Labels[2]
    /\ Labels[3] # Labels[2]
    /\ Labels[4] = Labels[1]
    /\ \A i \in 1..4 : Labels[i] # "__outside__"
    /\ Len(scanpathMetrics.aoiSequence) = 3

\* The count the matrix holds for (from, to): 0 when the key is missing.
TransitionCount(matrix, from, to) ==
    IF from \in DOMAIN matrix /\ to \in DOMAIN matrix[from]
    THEN matrix[from][to] ELSE 0

\* Sum of f[x] over x in S.
RECURSIVE SumOver(_, _)
SumOver(f, S) ==
    IF S = {} THEN 0
    ELSE LET x == CHOOSE y \in S : TRUE
         IN f[x] + SumOver(f, S \ {x})

\* All (from, to) keys of the matrix.
MatrixPairs(matrix) ==
    UNION {{<<from, to>> : to \in DOMAIN matrix[from]} : from \in DOMAIN matrix}

\* C22: the matrix counts the pairs of consecutive labels, collapsed or not:
\* the count of (from, to) is the number of positions where from is followed
\* by to, a label followed by itself counts on the diagonal, and for n >= 1
\* fixations all counts sum to n - 1.
C22_MatrixFromUncollapsedLabels ==
    ScanpathDone =>
        LET matrix == scanpathMetrics.aoiTransitionMatrix
            n      == Len(fixations)
            names  == {Labels[i] : i \in 1..n} \cup MatrixKeys(matrix)
        IN /\ \A from \in names : \A to \in names :
                 TransitionCount(matrix, from, to)
                    = Cardinality({i \in 2..n : Labels[i - 1] = from /\ Labels[i] = to})
           /\ \A pair \in MatrixPairs(matrix) : matrix[pair[1]][pair[2]] >= 1
           /\ n >= 1 =>
                 SumOver([pair \in MatrixPairs(matrix) |-> matrix[pair[1]][pair[2]]],
                         MatrixPairs(matrix)) = n - 1

\* C22 witness: of three or more fixations two consecutive ones carry the same
\* label, and the diagonal entry of that label counts them.
C22_Witness ==
    /\ ScanpathDone
    /\ Len(fixations) >= 3
    /\ \E i \in 2..Len(fixations) :
          /\ Labels[i - 1] = Labels[i]
          /\ TransitionCount(scanpathMetrics.aoiTransitionMatrix,
                             Labels[i], Labels[i]) >= 1
    /\ \E i \in 2..Len(fixations) : Labels[i - 1] # Labels[i]

\* C29: for a non-empty fixation list aoiSequence has one entry more than the
\* matrix counts transitions between different labels, and its first entry is
\* the label of the earliest fixation.
C29_SequenceLengthFromMatrix ==
    (ScanpathDone /\ Len(fixations) >= 1) =>
        LET matrix      == scanpathMetrics.aoiTransitionMatrix
            offDiagonal == {pair \in MatrixPairs(matrix) : pair[1] # pair[2]}
        IN /\ Len(scanpathMetrics.aoiSequence)
                 = 1 + SumOver([pair \in offDiagonal |-> matrix[pair[1]][pair[2]]],
                               offDiagonal)
           /\ scanpathMetrics.aoiSequence[1] = Labels[1]

\* C29 witness: four fixations with a repeated consecutive label and two
\* changes of label.
C29_Witness ==
    /\ ScanpathDone
    /\ Len(fixations) = 4
    /\ Len(scanpathMetrics.aoiSequence) = 3
    /\ \E i \in 2..4 : Labels[i - 1] = Labels[i]
    /\ fixations # InTimeOrder(fixations)

\* ==================== Claims on the first fixations and the dwell times ====================

\* The position at which the first-fixation records are set.
FirstFixationDone == pc \in {"measured", "drawn"}

\* The k-th fixation in time order is inside AOI j.
InsideAt(k, j) ==
    LET fixation == InTimeOrder(fixations)[k]
        i        == CHOOSE m \in 1..Len(fixations) : fixations[m] = fixation
    IN contains[i][j]

\* The positions in time order where AOI j is entered.
EntriesOf(j) ==
    {k \in 1..Len(fixations) : InsideAt(k, j) /\ (k = 1 \/ ~ InsideAt(k - 1, j))}

\* C23: the entryCount of an AOI is the number of fixations, in startTime
\* order, that are inside the AOI and are the first fixation or follow one that
\* is not inside it.
C23_EntryCountIsRisingEdges ==
    FirstFixationDone =>
        \A j \in 1..Len(aois) :
            firstFixationMetrics[j].entryCount = Cardinality(EntriesOf(j))

\* C23 witness: an AOI that the first fixation in time order is inside of,
\* that is left and entered again, on a list out of time order.
C23_Witness ==
    /\ FirstFixationDone
    /\ fixations # InTimeOrder(fixations)
    /\ \E j \in 1..Len(aois) :
          /\ InsideAt(1, j)
          /\ firstFixationMetrics[j].entryCount = 2
          /\ Cardinality({k \in 1..Len(fixations) : InsideAt(k, j)}) = 3

\* C24: the "Outside AOIs" record counts exactly the fixations that
\* findAOIForFixation resolves to null, with the sum of their durations; each
\* fixation is counted by the outside record or by at least one AOI record,
\* never by both.
C24_OutsideIsUnresolved ==
    DwellDone =>
        LET outside    == dwellTimeStats[Len(aois) + 1]
            unresolved == {i \in 1..Len(fixations) : matched[i] = Null}
        IN /\ outside.fixationCount = Cardinality(unresolved)
           /\ outside.totalDwellTime
                 = SumOver([i \in unresolved |-> fixations[i].duration], unresolved)
           /\ \A j \in 1..Len(aois) :
                 dwellTimeStats[j].fixationCount = Cardinality(InsideOf(j))
           /\ \A i \in 1..Len(fixations) :
                 (i \in unresolved) <=> ~ \E j \in 1..Len(aois) : i \in InsideOf(j)

\* C24 witness: with two AOIs, one fixation is resolved to no AOI and one is
\* inside an AOI of zero width and inside no other.
C24_Witness ==
    /\ DwellDone
    /\ Len(aois) = 2
    /\ \E i \in 1..Len(fixations) : matched[i] = Null
    /\ \E i \in 1..Len(fixations) : \E j \in 1..Len(aois) :
          /\ contains[i][j]
          /\ aois[j].bounds.width = 0
          /\ \A k \in 1..Len(aois) : contains[i][k] => k = j

\* C28: for every AOI, timeToFirstFixation is null exactly when entryCount is
\* 0 and exactly when the fixationCount of its dwell-time record is 0;
\* otherwise 1 <= entryCount <= fixationCount.
C28_FirstFixationAgreesWithDwell ==
    FirstFixationDone =>
        \A j \in 1..Len(aois) :
            LET first == firstFixationMetrics[j]
                dwell == dwellTimeStats[j]
            IN /\ first.aoiId = dwell.aoiId
               /\ (first.timeToFirstFixation = Null) <=> (first.entryCount = 0)
               /\ (first.entryCount = 0) <=> (dwell.fixationCount = 0)
               /\ dwell.fixationCount > 0 =>
                     /\ 1 <= first.entryCount
                     /\ first.entryCount <= dwell.fixationCount

\* C28 witness: one AOI no fixation is inside of, and one with fewer entries
\* than fixations.
C28_Witness ==
    /\ FirstFixationDone
    /\ \E j \in 1..Len(aois) : dwellTimeStats[j].fixationCount = 0
    /\ \E j \in 1..Len(aois) :
          /\ firstFixationMetrics[j].entryCount >= 2
          /\ firstFixationMetrics[j].entryCount < dwellTimeStats[j].fixationCount

\* ==================== Claims on the drawing data ====================

\* C25: getScanpathDrawingData returns one circle per fixation, in startTime
\* order, and one line for every two successive ones; every radius is between
\* 5 and 30, a fixation of the shortest duration gets 5 and, when the
\* durations differ, one of the longest gets 30.
C25_CirclesAndLines ==
    pc = "drawn" =>
        LET n         == Len(fixations)
            ordered   == InTimeOrder(fixations)
            circles   == drawingData.circles
            lines     == drawingData.lines
            durations == {fixations[i].duration : i \in 1..n}
        IN /\ Len(circles) = n
           /\ Len(lines) = (IF n = 0 THEN 0 ELSE n - 1)
           /\ \A i \in 1..n :
                 /\ circles[i].id = ordered[i].id
                 /\ circles[i].x = ordered[i].x
                 /\ circles[i].y = ordered[i].y
                 /\ IntLeqRat(5, circles[i].radius)
                 /\ RatLeqInt(circles[i].radius, 30)
                 /\ (\A d \in durations : ordered[i].duration <= d)
                       => RatEq(circles[i].radius, Rat(5))
                 /\ (/\ \A d \in durations : d <= ordered[i].duration
                     /\ \E d \in durations : d < ordered[i].duration)
                       => RatEq(circles[i].radius, Rat(30))
           /\ \A i \in 1..Len(lines) :
                 /\ lines[i].x1 = ordered[i].x
                 /\ lines[i].y1 = ordered[i].y
                 /\ lines[i].x2 = ordered[i + 1].x
                 /\ lines[i].y2 = ordered[i + 1].y

\* C25 witness: three or more fixations out of time order, of three different
\* durations, none of them 0.
C25_Witness ==
    /\ pc = "drawn"
    /\ Len(fixations) >= 3
    /\ fixations # InTimeOrder(fixations)
    /\ Cardinality({fixations[i].duration : i \in 1..Len(fixations)}) >= 3
    /\ \A i \in 1..Len(fixations) : fixations[i].duration > 0
    /\ \E i \in 1..Len(fixations) :
          /\ ~ RatEq(drawingData.circles[i].radius, Rat(5))
          /\ ~ RatEq(drawingData.circles[i].radius, Rat(30))

\* ==================== Claims on the detector, its termination and its fixations ====================

\* A pass of the outer while is taken.
PassTaken == pc = "loop" /\ history' # history

\* C26: detectFixationsIDT returns on every input and every threshold and
\* minimum duration: a pass of the outer while breaks out or leaves windowStart
\* greater than it found it, windowEnd stays within the input (it is at most
\* the length, the value on which the loop breaks), and the call reaches its
\* return.
C26_Terminates ==
    /\ [][PassTaken =>
             /\ (idt'.branch = "break" \/ idt'.windowStart > idt.windowStart)
             /\ idt'.windowEnd <= Len(idt.sortedPoints) + 1
             /\ idt'.windowStart <= Len(idt.sortedPoints) + 1]_<<pc, history>>
    /\ <>(pc = "returned")

\* C26 witness: a call with a minimum duration of 0 or less returned after as
\* many passes as there are points.
C26_Witness ==
    /\ pc = "returned"
    /\ minFixationDuration <= 0
    /\ Len(gazePoints) >= 3
    /\ Len(history) = Len(gazePoints)

\* C27: under a minimum duration above 0 every returned fixation has two
\* points or more and ends after it starts; a fixation of one point and of
\* duration 0 is returned only under a minimum duration of 0 or less.
C27_NoSinglePointFixation ==
    pc = "detected" =>
        \A i \in 1..Len(fixations) :
            /\ minFixationDuration > 0 =>
                  /\ fixations[i].pointCount >= 2
                  /\ fixations[i].endTime > fixations[i].startTime
            /\ (fixations[i].pointCount = 1 \/ fixations[i].duration = 0) =>
                  minFixationDuration <= 0

\* C27 witness: a fixation of two points under a minimum of 100 ms.
C27_Witness ==
    /\ pc = "detected"
    /\ minFixationDuration > 0
    /\ \E i \in 1..Len(fixations) : fixations[i].pointCount = 2

\* A fixation of one point is returned under a minimum duration of 0.
C27_WitnessSinglePoint ==
    /\ pc = "detected"
    /\ minFixationDuration = 0
    /\ \E i \in 1..Len(fixations) : fixations[i].pointCount = 1

\* ==================== Claims on VideoMode ====================

\* C30: in VideoMode, after any sequence of add-AOI, delete-AOI, run-analysis
\* and export-analysis actions, the stored analysis result is the one computed
\* from the AOI list now held, and the blocks last exported are those of a
\* result computed from the AOI list they were labelled with.
C30_StoredResultIsCurrent ==
    pc = "video" =>
        /\ videoMode.analysisResult # Null =>
              ValueOf(videoMode.analysisResult)
                  = analyzeGazeData(videoMode.gazePoints, videoMode.aois, FormOptions)
        /\ (outcome = "exported" /\ videoMode.downloads # Null) =>
              ValueOf(videoMode.downloads)
                  = analysisToCSV(analyzeGazeData(videoMode.gazePoints,
                                                  videoMode.aois, FormOptions),
                                  videoMode.aois)

====
